---- MODULE Spec2Model ----
(***************************************************************************)
(* The list endpoint of the sales service: raw query parameters are        *)
(* validated (backend/utils/validation.ts), compiled into a Prisma where   *)
(* clause and an orderBy (backend/utils/query.ts), read from the store by  *)
(* two independent reads and reshaped into the response                    *)
(* (backend/controllers/sales.controller.ts).                              *)
(*                                                                         *)
(* A JavaScript string is a sequence of one-character strings, so that     *)
(* trimming, splitting and parsing are computed character by character.    *)
(***************************************************************************)
EXTENDS Integers, Sequences, FiniteSets, TLC

\* ------------------------------------------------------------------ bounds

\* longest raw string tried for a numeric parameter (page, pageSize, ageMin, ...)
MaxLen == 3
\* longest raw string tried for a multi-select parameter
MaxListLen == 3
\* longest raw string tried for the search parameter
MaxSearchLen == 2
\* largest page and largest pageSize requested beside a sort token
MaxPage == 4
MaxPageSize == 3
\* most sales-data requests the client issues in one behaviour
MaxRequests == 3
\* most rows of the CSV file that the seeding script reads
MaxRows == 5
\* the batch size of the seeding script (500 in seed.ts), scaled to the rows read
batchSize == 2

\* ------------------------------------------------------- JavaScript values

Undefined == [t |-> "undefined"]
Str(s) == [t |-> "string", s |-> s]
Arr(a) == [t |-> "array", a |-> a]
List(a) == [t |-> "list", l |-> a]
TypeError == [t |-> "throw"]

\* a Number is NaN, the rational num / den (den a power of ten), or an infinity,
\* 1 / 0 or -1 / 0, which the comparisons below order as JavaScript does
NaN == [t |-> "number", nan |-> TRUE, num |-> 0, den |-> 1]
Number(n, d) == [t |-> "number", nan |-> FALSE, num |-> n, den |-> d]
Infinity == Number(1, 0)
NegInfinity == Number(0 - 1, 0)
IsFiniteNum(x) == ~x.nan /\ x.den # 0
IsInteger(x) == ~x.nan /\ x.den = 1
IsNaN(x) == x.nan
NumGe(x, y) == ~x.nan /\ ~y.nan /\ x.num * y.den >= y.num * x.den
NumLe(x, y) == ~x.nan /\ ~y.nan /\ x.num * y.den <= y.num * x.den
NumGt(x, y) == ~x.nan /\ ~y.nan /\ x.num * y.den > y.num * x.den
NumEq(x, y) == ~x.nan /\ ~y.nan /\ x.num * y.den = y.num * x.den
Int2Num(n) == Number(n, 1)

Min(a, b) == IF a < b THEN a ELSE b
Max(a, b) == IF a > b THEN a ELSE b
One(present) == IF present THEN 1 ELSE 0

\* if (v): a non-empty string and every array are truthy
Truthy(v) ==
    CASE v.t = "undefined" -> FALSE
      [] v.t = "string" -> v.s # <<>>
      [] OTHER -> TRUE

IsWhiteSpace(c) == c = " "
IsDigit(c) == c \in {"0", "1", "2", "3", "4", "5", "6", "7", "8", "9"}
DigitVal(c) ==
    CASE c = "0" -> 0 [] c = "1" -> 1 [] c = "2" -> 2 [] c = "3" -> 3
      [] c = "4" -> 4 [] c = "5" -> 5 [] c = "6" -> 6 [] c = "7" -> 7
      [] c = "8" -> 8 [] c = "9" -> 9

RECURSIVE StrTrimStart(_)
StrTrimStart(s) ==
    IF s # <<>> /\ IsWhiteSpace(Head(s)) THEN StrTrimStart(Tail(s)) ELSE s

RECURSIVE StrTrimEnd(_)
StrTrimEnd(s) ==
    IF s # <<>> /\ IsWhiteSpace(s[Len(s)])
    THEN StrTrimEnd(SubSeq(s, 1, Len(s) - 1))
    ELSE s

\* String.prototype.trim
StrTrim(s) == StrTrimEnd(StrTrimStart(s))

\* String.prototype.split(','): the pieces between the commas, empty ones included
RECURSIVE StrSplit(_, _)
StrSplit(s, cur) ==
    IF s = <<>> THEN <<cur>>
    ELSE IF Head(s) = "," THEN <<cur>> \o StrSplit(Tail(s), <<>>)
    ELSE StrSplit(Tail(s), Append(cur, Head(s)))

\* Array.prototype.join(','), which is also an array's JSToString
RECURSIVE StrJoin(_)
StrJoin(a) ==
    IF a = <<>> THEN <<>>
    ELSE IF Len(a) = 1 THEN a[1]
    ELSE a[1] \o <<",">> \o StrJoin(Tail(a))

\* JSToString of a raw query value
JSToString(v) ==
    CASE v.t = "string" -> v.s
      [] v.t = "array" -> StrJoin(v.a)
      [] OTHER -> <<"u", "n", "d", "e", "f", "i", "n", "e", "d">>

\* the longest prefix of s that holds only characters of cs
PrefixOf(s, cs) ==
    LET n == CHOOSE k \in 0..Len(s) :
                /\ \A i \in 1..k : s[i] \in cs
                /\ k = Len(s) \/ s[k + 1] \notin cs
    IN  SubSeq(s, 1, n)

Digits == {"0", "1", "2", "3", "4", "5", "6", "7", "8", "9"}
DigitPrefix(s) == PrefixOf(s, Digits)

RECURSIVE DigitsValue(_)
DigitsValue(ds) ==
    IF ds = <<>> THEN 0
    ELSE DigitsValue(SubSeq(ds, 1, Len(ds) - 1)) * 10 + DigitVal(ds[Len(ds)])

RECURSIVE Pow10(_)
Pow10(k) == IF k = 0 THEN 1 ELSE 10 * Pow10(k - 1)

\* Number.MAX_VALUE, about 1.8e308, has 309 digits: an integer of more digits is
\* beyond every double and is rounded to Infinity
MaxValueDigits == 309

DropZeros(ds) == SubSeq(ds, Len(PrefixOf(ds, {"0"})) + 1, Len(ds))

Overflows(ds) == Len(DropZeros(ds)) > MaxValueDigits

\* parseInt(v, 10): leading white space, a sign, then the longest digit prefix
parseInt(v) ==
    LET s == StrTrimStart(JSToString(v))
        signed == s # <<>> /\ Head(s) \in {"-", "+"}
        body == IF signed THEN Tail(s) ELSE s
        ds == DigitPrefix(body)
        n == DigitsValue(ds)
        neg == signed /\ Head(s) = "-"
    IN  IF ds = <<>> THEN NaN
        ELSE IF Overflows(ds) THEN (IF neg THEN NegInfinity ELSE Infinity)
        ELSE Int2Num(IF neg THEN 0 - n ELSE n)

\* parseFloat(v): leading white space, a sign, digits, then a point and digits
\* (exponents and Infinity are outside the characters tried)
parseFloat(v) ==
    LET s == StrTrimStart(JSToString(v))
        signed == s # <<>> /\ Head(s) \in {"-", "+"}
        body == IF signed THEN Tail(s) ELSE s
        ip == DigitPrefix(body)
        rest == SubSeq(body, Len(ip) + 1, Len(body))
        fp == IF rest # <<>> /\ Head(rest) = "." THEN DigitPrefix(Tail(rest)) ELSE <<>>
        n == DigitsValue(ip) * Pow10(Len(fp)) + DigitsValue(fp)
        neg == signed /\ Head(s) = "-"
    IN  IF ip = <<>> /\ fp = <<>> THEN NaN
        ELSE IF Overflows(ip) THEN (IF neg THEN NegInfinity ELSE Infinity)
        ELSE Number(IF neg THEN 0 - n ELSE n, Pow10(Len(fp)))

\* String.prototype.trim called on a value: a TypeError unless it is a string
JSTrim(v) == IF v.t = "string" THEN Str(StrTrim(v.s)) ELSE TypeError

\* ------------------------------------------------------------ Date (UTC ms)

MsPerMinute == 60 * 1000
MsPerDay == 24 * 60 * MsPerMinute

\* days from 1970-01-01 to the civil date y-m-d (MakeDay)
DaysFromCivil(y, m, d) ==
    LET yy == IF m <= 2 THEN y - 1 ELSE y
        era == yy \div 400
        yoe == yy - era * 400
        mp == IF m > 2 THEN m - 3 ELSE m + 9
        doy == (153 * mp + 2) \div 5 + d - 1
        doe == yoe * 365 + yoe \div 4 - yoe \div 100 + doy
    IN  era * 146097 + doe - 719468

AllDigits(s) == \A i \in 1..Len(s) : IsDigit(s[i])

InvalidDate == [valid |-> FALSE, ms |-> 0]
ValidDate(ms) == [valid |-> TRUE, ms |-> ms]

\* new Date(string) for the ISO forms YYYY-MM-DD (UTC midnight), YYYY-MM-DDTHH:mm
\* (local time of the server, tz minutes east of UTC) and YYYY-MM-DDTHH:mmZ (UTC);
\* every other string tried is one no engine parses
DateParse(s, tz) ==
    LET n == Len(s)
        shape == /\ n \in {10, 16, 17}
                 /\ AllDigits(SubSeq(s, 1, 4)) /\ s[5] = "-"
                 /\ AllDigits(SubSeq(s, 6, 7)) /\ s[8] = "-"
                 /\ AllDigits(SubSeq(s, 9, 10))
                 /\ n > 10 => /\ s[11] = "T"
                              /\ AllDigits(SubSeq(s, 12, 13)) /\ s[14] = ":"
                              /\ AllDigits(SubSeq(s, 15, 16))
                 /\ n = 17 => s[17] = "Z"
        y == DigitsValue(SubSeq(s, 1, 4))
        m == DigitsValue(SubSeq(s, 6, 7))
        d == DigitsValue(SubSeq(s, 9, 10))
        hh == IF n > 10 THEN DigitsValue(SubSeq(s, 12, 13)) ELSE 0
        mm == IF n > 10 THEN DigitsValue(SubSeq(s, 15, 16)) ELSE 0
        wall == DaysFromCivil(y, m, d) * MsPerDay + (hh * 60 + mm) * MsPerMinute
    IN  IF ~shape THEN InvalidDate
        ELSE IF ~(m \in 1..12 /\ d \in 1..31 /\ hh \in 0..23 /\ mm \in 0..59)
        THEN InvalidDate
        ELSE IF n = 16 THEN ValidDate(wall - tz * MsPerMinute)
        ELSE ValidDate(wall)

\* new Date(value): an array is first converted to its string
NewDate(v, tz) == DateParse(JSToString(v), tz)

\* Date.prototype.setHours(23, 59, 59, 999): the last millisecond of the day
\* that holds the instant in the server's local time
SetHoursEndOfDay(ms, tz) ==
    LET local == ms + tz * MsPerMinute
        day == local \div MsPerDay
    IN  day * MsPerDay + (MsPerDay - 1) - tz * MsPerMinute

\* ---------------------------------------------- backend/utils/validation.ts

MultiKeys ==
    {"customerRegion", "gender", "productCategory", "tags",
     "paymentMethod", "orderStatus", "deliveryType", "brand"}
IntKeys == {"ageMin", "ageMax"}
FloatKeys == {"priceMin", "priceMax"}
DateKeys == {"dateFrom", "dateTo"}
FilterKeys == MultiKeys \cup IntKeys \cup FloatKeys \cup DateKeys
QueryKeys == {"page", "pageSize", "search", "sort"} \cup FilterKeys

NonBlank(item) == StrTrim(item) # <<>>
NonEmpty(item) == item # <<>>

RECURSIVE MapTrim(_)
MapTrim(a) == IF a = <<>> THEN <<>> ELSE <<StrTrim(Head(a))>> \o MapTrim(Tail(a))

\* an array keeps the items that are not blank, as they are; a string is split on
\* commas, each piece trimmed and the empty pieces dropped
parseArrayParam(param) ==
    CASE param.t = "array" -> List(SelectSeq(param.a, NonBlank))
      [] param.t = "string" ->
            List(SelectSeq(MapTrim(StrSplit(param.s, <<>>)), NonEmpty))
      [] OTHER -> List(<<>>)

isValidDate(dateString, tz) == NewDate(dateString, tz).valid

\* parseIntBound with the test ageMin > 0 in place of ageMin >= 0
parseIntBound_DropsZero(raw) ==
    IF Truthy(raw)
    THEN LET n == parseInt(raw)
         IN  IF ~IsNaN(n) /\ NumGt(n, Int2Num(0)) THEN n ELSE Undefined
    ELSE Undefined

parseIntBound(raw) ==
    IF Truthy(raw)
    THEN LET n == parseInt(raw)
         IN  IF ~IsNaN(n) /\ NumGe(n, Int2Num(0)) THEN n ELSE Undefined
    ELSE Undefined

parseFloatBound(raw) ==
    IF Truthy(raw)
    THEN LET n == parseFloat(raw)
         IN  IF ~IsNaN(n) /\ NumGe(n, Int2Num(0)) THEN n ELSE Undefined
    ELSE Undefined

parseDateBound(raw, tz) ==
    IF Truthy(raw) /\ isValidDate(raw, tz) THEN raw ELSE Undefined

parseMulti(raw) == IF Truthy(raw) THEN parseArrayParam(raw) ELSE Undefined

parseFilters(query, tz) ==
    [k \in FilterKeys |->
        CASE k \in MultiKeys -> parseMulti(query[k])
          [] k \in IntKeys -> parseIntBound(query[k])
          [] k \in FloatKeys -> parseFloatBound(query[k])
          [] OTHER -> parseDateBound(query[k], tz)]

\* the page is kept as the Number parseInt gave
validatePage(query) ==
    IF Truthy(query.page)
    THEN LET page == parseInt(query.page)
         IN  IF ~IsNaN(page) /\ NumGt(page, Int2Num(0)) THEN page ELSE Int2Num(1)
    ELSE Int2Num(1)

\* validatePageSize without the ceiling of 100
validatePageSize_NoCeiling(query) ==
    IF Truthy(query.pageSize)
    THEN LET pageSize == parseInt(query.pageSize)
         IN  IF ~IsNaN(pageSize) /\ NumGt(pageSize, Int2Num(0))
             THEN pageSize.num ELSE 10
    ELSE 10

validatePageSize(query) ==
    IF Truthy(query.pageSize)
    THEN LET pageSize == parseInt(query.pageSize)
         IN  IF ~IsNaN(pageSize) /\ NumGt(pageSize, Int2Num(0))
                /\ NumLe(pageSize, Int2Num(100))
             THEN pageSize.num ELSE 10
    ELSE 10

\* validateSearch without the test typeof query.search === 'string'
validateSearch_NoTypeCheck(query) ==
    IF Truthy(query.search) THEN JSTrim(query.search) ELSE Undefined

validateSearch(query) ==
    IF Truthy(query.search) /\ query.search.t = "string"
    THEN JSTrim(query.search)
    ELSE Undefined

validateSort(query) ==
    IF Truthy(query.sort) /\ query.sort.t = "string" THEN query.sort ELSE Undefined

\* threw: an exception left validateQueryParams
validateQueryParams(query, tz) ==
    LET search == validateSearch(query)
    IN  [threw |-> search.t = "throw",
         page |-> validatePage(query),
         pageSize |-> validatePageSize(query),
         search |-> search,
         sort |-> validateSort(query),
         filters |-> parseFilters(query, tz)]

\* --------------------------------------------------- backend/utils/query.ts

EmptyWhere == [t |-> "empty"]
AndWhere(conditions) == [t |-> "and", AND |-> conditions]

DateValue(d) == [t |-> "date", valid |-> d.valid, ms |-> d.ms]

\* { OR: [{customerName: {contains, insensitive}}, {phoneNumber: {contains, insensitive}}] }
searchCondition(search) ==
    IF Truthy(search) /\ StrTrim(search.s) # <<>>
    THEN << [field |-> "OR", kind |-> "contains", term |-> StrTrim(search.s)] >>
    ELSE <<>>

\* inCondition without the test length > 0
inCondition_NoLengthCheck(filters, k) ==
    IF filters[k] # Undefined
    THEN << [field |-> k, kind |-> "in", values |-> filters[k].l] >>
    ELSE <<>>

\* { field: { in: values } }
inCondition(filters, k) ==
    IF filters[k] # Undefined /\ Len(filters[k].l) > 0
    THEN << [field |-> k, kind |-> "in", values |-> filters[k].l] >>
    ELSE <<>>

\* no condition is pushed for tags
tagsCondition_Missing(filters) == <<>>

\* { tags: { hasSome: values } }
tagsCondition(filters) ==
    IF filters.tags # Undefined /\ Len(filters.tags.l) > 0
    THEN << [field |-> "tags", kind |-> "hasSome", values |-> filters.tags.l] >>
    ELSE <<>>

\* rangeCondition with && in place of ||: a condition only when both bounds are set
rangeCondition_NeedsBoth(field, min, max) ==
    IF min # Undefined /\ max # Undefined
    THEN << [field |-> field, kind |-> "range", gte |-> min, lte |-> max] >>
    ELSE <<>>

\* { age: { gte, lte } } and { finalAmount: { gte, lte } }
rangeCondition(field, min, max) ==
    IF min # Undefined \/ max # Undefined
    THEN << [field |-> field, kind |-> "range", gte |-> min, lte |-> max] >>
    ELSE <<>>

\* { date: { gte: new Date(dateFrom), lte: new Date(dateTo) at 23:59:59.999 } }
dateCondition(filters, tz) ==
    IF Truthy(filters.dateFrom) \/ Truthy(filters.dateTo)
    THEN LET from == NewDate(filters.dateFrom, tz)
             to == NewDate(filters.dateTo, tz)
         IN  << [field |-> "date", kind |-> "range",
                 gte |-> IF Truthy(filters.dateFrom) THEN DateValue(from)
                         ELSE Undefined,
                 lte |-> IF Truthy(filters.dateTo)
                         THEN DateValue([valid |-> to.valid,
                                         ms |-> SetHoursEndOfDay(to.ms, tz)])
                         ELSE Undefined] >>
    ELSE <<>>

filterConditions(filters, tz) ==
    inCondition(filters, "customerRegion")
        \o inCondition(filters, "gender")
        \o rangeCondition("age", filters.ageMin, filters.ageMax)
        \o inCondition(filters, "productCategory")
        \o tagsCondition(filters)
        \o inCondition(filters, "paymentMethod")
        \o inCondition(filters, "orderStatus")
        \o inCondition(filters, "deliveryType")
        \o inCondition(filters, "brand")
        \o dateCondition(filters, tz)
        \o rangeCondition("finalAmount", filters.priceMin, filters.priceMax)

\* search.trim() is a TypeError when search is neither absent nor a string
buildWhereClause(search, filters, tz) ==
    IF Truthy(search) /\ search.t # "string" THEN TypeError
    ELSE LET conditions ==
                 searchCondition(search)
                     \o (IF filters # Undefined THEN filterConditions(filters, tz)
                         ELSE <<>>)
         IN  IF Len(conditions) = 0 THEN EmptyWhere ELSE AndWhere(conditions)

\* buildOrderBy with the default and unrecognized tokens given date ascending
buildOrderBy_DefaultAscending(sort) ==
    IF ~Truthy(sort) THEN [field |-> "date", dir |-> "asc"]
    ELSE CASE sort.s = <<"q", "u", "a", "n", "t", "i", "t", "y", "-", "h", "i", "g", "h">> ->
                [field |-> "quantity", dir |-> "desc"]
           [] sort.s = <<"q", "u", "a", "n", "t", "i", "t", "y", "-", "l", "o", "w">> ->
                [field |-> "quantity", dir |-> "asc"]
           [] sort.s = <<"n", "a", "m", "e", "-", "a", "s", "c">> ->
                [field |-> "customerName", dir |-> "asc"]
           [] sort.s = <<"n", "a", "m", "e", "-", "d", "e", "s", "c">> ->
                [field |-> "customerName", dir |-> "desc"]
           [] sort.s = <<"d", "a", "t", "e", "-", "n", "e", "w", "e", "s", "t">> ->
                [field |-> "date", dir |-> "desc"]
           [] OTHER -> [field |-> "date", dir |-> "asc"]

\* SalesService.buildOrderBy
buildOrderBy(sort) ==
    IF ~Truthy(sort) THEN [field |-> "date", dir |-> "desc"]
    ELSE CASE sort.s = <<"d", "a", "t", "e", "-", "n", "e", "w", "e", "s", "t">> ->
                [field |-> "date", dir |-> "desc"]
           [] sort.s = <<"d", "a", "t", "e", "-", "o", "l", "d", "e", "s", "t">> ->
                [field |-> "date", dir |-> "asc"]
           [] sort.s = <<"q", "u", "a", "n", "t", "i", "t", "y", "-", "h", "i", "g", "h">> ->
                [field |-> "quantity", dir |-> "desc"]
           [] sort.s = <<"q", "u", "a", "n", "t", "i", "t", "y", "-", "l", "o", "w">> ->
                [field |-> "quantity", dir |-> "asc"]
           [] sort.s = <<"n", "a", "m", "e", "-", "a", "s", "c">> ->
                [field |-> "customerName", dir |-> "asc"]
           [] sort.s = <<"n", "a", "m", "e", "-", "d", "e", "s", "c">> ->
                [field |-> "customerName", dir |-> "desc"]
           [] OTHER -> [field |-> "date", dir |-> "desc"]

\* ------------------------------------------------------------- the store

\* the documents of the sales collection
VARIABLE store

M == <<"M">>
F == <<"F">>
MF == <<"M", "F">>

Day == MsPerDay

\* a stored Sales document; the fields no filter or sort reads hold fixed values
Sale(id, date, name, phone, gender, age, region, category, tags, quantity, total, final, payment, status, delivery, brand) ==
    [id |-> id, date |-> date, customerId |-> <<"c">>, customerName |-> name,
     phoneNumber |-> phone, gender |-> gender, age |-> age,
     customerRegion |-> region, customerType |-> <<"t">>, productId |-> <<"p">>,
     productName |-> <<"n">>, brand |-> brand, productCategory |-> category,
     tags |-> tags, quantity |-> quantity, pricePerUnit |-> Int2Num(1),
     discountPercentage |-> Int2Num(0), totalAmount |-> total,
     finalAmount |-> final, paymentMethod |-> payment, orderStatus |-> status,
     deliveryType |-> delivery, storeId |-> <<"s">>, storeLocation |-> <<"l">>,
     salespersonId |-> <<"e">>, employeeName |-> <<"m">>]

\* the documents of the collection: dates on 1, 2 and 3 January 1970 (UTC), two at
\* the same instant, one in the last second of its day; one document has no brand,
\* which the loader stores as the empty string
Dataset ==
    { Sale(1, Day, <<"A", "b">>, <<"1", "0">>, M, 10, M, M, <<M>>, 1,
           Int2Num(10), Int2Num(10), M, M, M, M),
      Sale(2, 2 * Day - 1000, <<"b", "a">>, <<"0", "1">>, F, 11, F, MF, <<M, F>>, 2,
           Int2Num(11), Number(11, 10), F, F, F, F),
      Sale(3, 2 * Day, <<"a", "A">>, <<"1", "1">>, M, 0, MF, F, <<>>, 2,
           Int2Num(1), Int2Num(0), MF, MF, MF, MF),
      Sale(4, Day \div 2, <<"A", "b">>, <<"0", "0">>, F, 1, M, M, <<F>>, 5,
           Int2Num(1), Number(1, 10), M, F, M, <<>>),
      Sale(5, Day, <<"b">>, <<"1">>, M, 100, F, F, <<MF>>, 1,
           Int2Num(11), Int2Num(1), F, M, F, M) }

\* a larger collection for the client, two pages of ten: twelve documents that differ
\* in date, name and quantity; the first two are of gender F, the others of gender M
LedgerName(i) ==
    LET cs == <<"A", "B", "a", "b">>
    IN  <<cs[((i - 1) \div 4) + 1], cs[((i - 1) % 4) + 1]>>

Ledger ==
    { Sale(i, i * (Day \div 4), LedgerName(i), <<"1">>, IF i <= 2 THEN F ELSE M, i, M, M,
           <<M>>, i, Int2Num(10 * i), Int2Num(9 * i), M, M, M, M) : i \in 1..12 }

CharCode(c) ==
    CASE c = "A" -> 65 [] c = "B" -> 66 [] c = "a" -> 97 [] c = "b" -> 98
      [] c = " " -> 32 [] c = "0" -> 48 [] c = "1" -> 49 [] c = "F" -> 70
      [] c = "M" -> 77 [] OTHER -> 120

ToLower(c) == CASE c = "A" -> "a" [] c = "B" -> "b" [] OTHER -> c

RECURSIVE StrLower(_)
StrLower(s) == IF s = <<>> THEN <<>> ELSE <<ToLower(Head(s))>> \o StrLower(Tail(s))

\* contains, mode insensitive
ContainsInsensitive(s, term) ==
    LET a == StrLower(s)
        b == StrLower(term)
    IN  \E i \in 0..(Len(a) - Len(b)) : SubSeq(a, i + 1, i + Len(b)) = b

RECURSIVE StrLess(_, _)
StrLess(a, b) ==
    IF b = <<>> THEN FALSE
    ELSE IF a = <<>> THEN TRUE
    ELSE IF Head(a) = Head(b) THEN StrLess(Tail(a), Tail(b))
    ELSE CharCode(Head(a)) < CharCode(Head(b))

SeqRange(s) == {s[i] : i \in 1..Len(s)}

\* does the document satisfy one condition of the where clause
Satisfies(doc, c) ==
    CASE c.kind = "contains" ->
            \/ ContainsInsensitive(doc.customerName, c.term)
            \/ ContainsInsensitive(doc.phoneNumber, c.term)
      [] c.kind = "in" -> doc[c.field] \in SeqRange(c.values)
      [] c.kind = "hasSome" -> SeqRange(doc.tags) \cap SeqRange(c.values) # {}
      [] c.field = "date" ->
            /\ c.gte # Undefined => c.gte.valid /\ doc.date >= c.gte.ms
            /\ c.lte # Undefined => c.lte.valid /\ doc.date <= c.lte.ms
      [] c.field = "age" ->
            /\ c.gte # Undefined => NumGe(Int2Num(doc.age), c.gte)
            /\ c.lte # Undefined => NumLe(Int2Num(doc.age), c.lte)
      [] OTHER ->
            /\ c.gte # Undefined => NumGe(doc.finalAmount, c.gte)
            /\ c.lte # Undefined => NumLe(doc.finalAmount, c.lte)

\* the documents a where clause selects: {} selects all, AND all its conditions
Matching(where) ==
    IF where.t = "empty" THEN store
    ELSE {doc \in store : \A i \in 1..Len(where.AND) : Satisfies(doc, where.AND[i])}

\* doc1 must come before doc2 under the orderBy; documents with equal keys may
\* come in either order
Before(doc1, doc2, orderBy) ==
    LET lt == CASE orderBy.field = "date" -> doc1.date < doc2.date
                [] orderBy.field = "quantity" -> doc1.quantity < doc2.quantity
                [] OTHER -> StrLess(doc1.customerName, doc2.customerName)
        gt == CASE orderBy.field = "date" -> doc1.date > doc2.date
                [] orderBy.field = "quantity" -> doc1.quantity > doc2.quantity
                [] OTHER -> StrLess(doc2.customerName, doc1.customerName)
    IN  IF orderBy.dir = "asc" THEN lt ELSE gt

\* every order of the documents that the orderBy allows
RECURSIVE Orders(_, _)
Orders(docs, orderBy) ==
    IF docs = {} THEN {<<>>}
    ELSE UNION { { <<d>> \o rest : rest \in Orders(docs \ {d}, orderBy) } :
                 d \in {x \in docs : \A y \in docs : ~Before(y, x, orderBy)} }

\* prisma.sales.findMany({where, orderBy, skip, take}): the possible pages
\* (a skip of Infinity leaves no document; whether Prisma accepts it is not known
\* from this repository, and the read may as well reject)
findMany(where, orderBy, skip, take) ==
    IF ~IsFiniteNum(skip) THEN {<<>>}
    ELSE { SubSeq(o, skip.num + 1,
                  IF skip.num + take < Len(o) THEN skip.num + take ELSE Len(o)) :
            o \in Orders(Matching(where), orderBy) }

\* count without its where: the number of all documents
count_AllRecords(where) == Cardinality(store)

\* prisma.sales.count({where})
count(where) == Cardinality(Matching(where))

\* ------------------------------------------------ SalesService.getSales

DigitChar(n) ==
    CASE n = 0 -> "0" [] n = 1 -> "1" [] n = 2 -> "2" [] n = 3 -> "3"
      [] n = 4 -> "4" [] n = 5 -> "5" [] n = 6 -> "6" [] n = 7 -> "7"
      [] n = 8 -> "8" [] OTHER -> "9"

RECURSIVE PadDigits(_, _)
PadDigits(n, width) ==
    IF width = 0 THEN <<>>
    ELSE Append(PadDigits(n \div 10, width - 1), DigitChar(n % 10))

\* n.toString() of an integer n >= 0
RECURSIVE NumberToString(_)
NumberToString(n) ==
    IF n < 10 THEN <<DigitChar(n)>>
    ELSE Append(NumberToString(n \div 10), DigitChar(n % 10))

\* the civil date of a day number (the inverse of DaysFromCivil)
CivilFromDays(days) ==
    LET z == days + 719468
        era == z \div 146097
        doe == z - era * 146097
        yoe == (doe - doe \div 1460 + doe \div 36524 - doe \div 146096) \div 365
        doy == doe - (365 * yoe + yoe \div 4 - yoe \div 100)
        mp == (5 * doy + 2) \div 153
        d == doy - (153 * mp + 2) \div 5 + 1
        m == IF mp < 10 THEN mp + 3 ELSE mp - 9
    IN  [y |-> yoe + era * 400 + (IF m <= 2 THEN 1 ELSE 0), m |-> m, d |-> d]

\* date.toISOString().split('T')[0]: the UTC calendar date, YYYY-MM-DD
ISODate(ms) ==
    LET c == CivilFromDays(ms \div MsPerDay)
    IN  PadDigits(c.y, 4) \o <<"-">> \o PadDigits(c.m, 2) \o <<"-">> \o PadDigits(c.d, 2)

\* the record under the display names of the response
MapRecord(record) ==
    [k \in {"Transaction ID", "Date", "Customer ID", "Customer Name", "Phone Number",
            "Gender", "Age", "Customer Region", "Customer Type", "Product ID",
            "Product Name", "Brand", "Product Category", "Tags", "Quantity",
            "Price per Unit", "Discount Percentage", "Total Amount", "Final Amount",
            "Payment Method", "Order Status", "Delivery Type", "Store ID",
            "Store Location", "Salesperson ID", "Employee Name"} |->
        CASE k = "Transaction ID" -> record.id
          [] k = "Date" -> ISODate(record.date)
          [] k = "Customer ID" -> record.customerId
          [] k = "Customer Name" -> record.customerName
          [] k = "Phone Number" -> record.phoneNumber
          [] k = "Gender" -> record.gender
          [] k = "Age" -> record.age
          [] k = "Customer Region" -> record.customerRegion
          [] k = "Customer Type" -> record.customerType
          [] k = "Product ID" -> record.productId
          [] k = "Product Name" -> record.productName
          [] k = "Brand" -> record.brand
          [] k = "Product Category" -> record.productCategory
          [] k = "Tags" -> record.tags
          [] k = "Quantity" -> record.quantity
          [] k = "Price per Unit" -> record.pricePerUnit
          [] k = "Discount Percentage" -> record.discountPercentage
          [] k = "Total Amount" -> record.totalAmount
          [] k = "Final Amount" -> record.finalAmount
          [] k = "Payment Method" -> record.paymentMethod
          [] k = "Order Status" -> record.orderStatus
          [] k = "Delivery Type" -> record.deliveryType
          [] k = "Store ID" -> record.storeId
          [] k = "Store Location" -> record.storeLocation
          [] k = "Salesperson ID" -> record.salespersonId
          [] OTHER -> record.employeeName]

MapData(rawData) == [i \in 1..Len(rawData) |-> MapRecord(rawData[i])]

\* Math.ceil(totalRecords / pageSize)
TotalPages(totalRecords, pageSize) == (totalRecords + pageSize - 1) \div pageSize

\* res.status(200).json({success: true, data, pagination, filters, sort, search})
SuccessResponse(p, rawData, totalRecords) ==
    [status |-> 200, success |-> TRUE, data |-> MapData(rawData),
     pagination |-> [page |-> p.page, pageSize |-> p.pageSize,
                     totalPages |-> TotalPages(totalRecords, p.pageSize),
                     totalRecords |-> totalRecords],
     filters |-> p.filters, sort |-> p.sort, search |-> p.search]

\* a failure response that still carries a data array and a pagination block
FailureResponse_Partial(error) ==
    [status |-> 500, success |-> FALSE, message |-> "Failed to fetch sales data",
     error |-> error, data |-> <<>>,
     pagination |-> [page |-> 1, pageSize |-> 10, totalPages |-> 0, totalRecords |-> 0]]

\* res.status(500).json({success: false, message, error})
FailureResponse(error) ==
    [status |-> 500, success |-> FALSE, message |-> "Failed to fetch sales data",
     error |-> error]

\* ------------------------------------------------------------------- state

VARIABLES
    query,          \* req.query: each key undefined, a string or an array of strings
    tz,             \* the server's local time zone, minutes east of UTC
    nodeEnv,        \* process.env.NODE_ENV of the server
    pc,             \* "received", "reading" (awaiting Promise.all), "responded",
                    \* "delivered" (the client has taken the response)
    params,         \* the SalesQueryParams of validateQueryParams
    whereClause,    \* the where clause given to both reads
    orderBy,
    skip,
    pageRead,       \* findMany: "idle", "pending", "ok", "failed"
    countRead,      \* count: "idle", "pending", "ok", "failed"
    rawData,        \* what findMany returned
    totalRecords,   \* what count returned
    response,       \* what the controller sent
    trace,          \* the reads issued, their outcomes and the responses sent, in order
    client,         \* the state the browser client holds
    previous,       \* the response to the same request issued before, if any
    options,        \* the response of the filter options endpoint, if asked
    walked,         \* the records of the pages a caller has walked so far
    inflight,       \* the sales-data requests of the client that await their response
    issued,         \* how many sales-data requests the client has issued
    latest,         \* what came back for the request the client issued last
    seed            \* the state of the seeding script

vars == <<query, tz, nodeEnv, pc, params, whereClause, orderBy, skip, pageRead,
          countRead, rawData, totalRecords, response, trace, client, previous, options,
          store, walked, inflight, issued, latest, seed>>

\* what the handlers of the list request leave alone
others == <<nodeEnv, client, previous, options, store, walked, inflight, issued,
            latest, seed>>

EmptyQuery == [k \in QueryKeys |-> Undefined]

\* Skip without the - 1: page * pageSize
Skip_PageTimesSize(page, pageSize) ==
    IF IsFiniteNum(page) THEN Int2Num(page.num * pageSize) ELSE page

\* (page - 1) * pageSize
Skip(page, pageSize) ==
    IF IsFiniteNum(page) THEN Int2Num((page.num - 1) * pageSize) ELSE page

\* the trace after a read has settled, and after the response it may bring
Settle(event, responds) ==
    IF responds THEN trace \o <<event, "json">> ELSE Append(trace, event)

\* the controller receives the request: validateQueryParams, then getSales up to
\* its await, which issues both reads; an exception is caught and answered with 500
GetSales ==
    /\ pc = "received"
    /\ LET p == validateQueryParams(query, tz)
           where == IF p.threw THEN TypeError
                    ELSE buildWhereClause(p.search, p.filters, tz)
       IN  IF where = TypeError
           THEN /\ pc' = "responded"
                /\ response' = FailureResponse("TypeError")
                /\ trace' = Append(trace, "json")
                /\ UNCHANGED <<params, whereClause, orderBy, skip, pageRead, countRead>>
           ELSE /\ pc' = "reading"
                /\ params' = p
                /\ skip' = Skip(p.page, p.pageSize)
                /\ whereClause' = where
                /\ orderBy' = buildOrderBy(p.sort)
                /\ pageRead' = "pending"
                /\ countRead' = "pending"
                /\ trace' = trace \o <<"findMany", "count">>
                /\ UNCHANGED response
    /\ UNCHANGED <<query, tz, rawData, totalRecords, others>>

\* findMany resolves; when count has resolved too, Promise.all resolves and the
\* response is sent
FindManyResolve ==
    /\ pageRead = "pending"
    /\ \E rows \in findMany(whereClause, orderBy, skip, params.pageSize) :
        /\ rawData' = rows
        /\ pageRead' = "ok"
        /\ trace' = Settle("findMany:ok", pc = "reading" /\ countRead = "ok")
        /\ IF pc = "reading" /\ countRead = "ok"
           THEN /\ response' = SuccessResponse(params, rows, totalRecords)
                /\ pc' = "responded"
           ELSE UNCHANGED <<response, pc>>
    /\ UNCHANGED <<query, tz, params, whereClause, orderBy, skip, countRead,
                   totalRecords, others>>

\* findMany rejects: Promise.all rejects at once, getSales throws, the controller
\* answers 500 (unless the other read has already failed the request)
FindManyReject ==
    /\ pageRead = "pending"
    /\ pageRead' = "failed"
    /\ trace' = Settle("findMany:failed", pc = "reading")
    /\ IF pc = "reading"
       THEN /\ response' = FailureResponse("Failed to fetch sales data")
            /\ pc' = "responded"
       ELSE UNCHANGED <<response, pc>>
    /\ UNCHANGED <<query, tz, params, whereClause, orderBy, skip, countRead,
                   rawData, totalRecords, others>>

CountResolve ==
    /\ countRead = "pending"
    /\ totalRecords' = count(whereClause)
    /\ countRead' = "ok"
    /\ trace' = Settle("count:ok", pc = "reading" /\ pageRead = "ok")
    /\ IF pc = "reading" /\ pageRead = "ok"
       THEN /\ response' = SuccessResponse(params, rawData, count(whereClause))
            /\ pc' = "responded"
       ELSE UNCHANGED <<response, pc>>
    /\ UNCHANGED <<query, tz, params, whereClause, orderBy, skip, pageRead,
                   rawData, others>>

CountReject ==
    /\ countRead = "pending"
    /\ countRead' = "failed"
    /\ trace' = Settle("count:failed", pc = "reading")
    /\ IF pc = "reading"
       THEN /\ response' = FailureResponse("Failed to fetch sales data")
            /\ pc' = "responded"
       ELSE UNCHANGED <<response, pc>>
    /\ UNCHANGED <<query, tz, params, whereClause, orderBy, skip, pageRead,
                   rawData, totalRecords, others>>

Next ==
    \/ GetSales
    \/ FindManyResolve
    \/ FindManyReject
    \/ CountResolve
    \/ CountReject

\* ---------------------------------------------------------- the client (App)

\* the options of the sort select
SortOptions ==
    { <<"d", "a", "t", "e", "-", "n", "e", "w", "e", "s", "t">>,
      <<"d", "a", "t", "e", "-", "o", "l", "d", "e", "s", "t">>,
      <<"q", "u", "a", "n", "t", "i", "t", "y", "-", "h", "i", "g", "h">>,
      <<"q", "u", "a", "n", "t", "i", "t", "y", "-", "l", "o", "w">>,
      <<"n", "a", "m", "e", "-", "a", "s", "c">>,
      <<"n", "a", "m", "e", "-", "d", "e", "s", "c">> }

\* the filters a user can hold as arrays of values
ArrayFilters == {"customerRegions", "gender", "productCategories", "tags", "paymentMethods"}

NoFilters ==
    [customerRegions |-> <<>>, gender |-> <<>>, ageMin |-> <<>>, ageMax |-> <<>>,
     productCategories |-> <<>>, tags |-> <<>>, paymentMethods |-> <<>>,
     dateFrom |-> <<>>, dateTo |-> <<>>]

NoStatistics ==
    [totalUnits |-> 0, totalAmount |-> Int2Num(0), totalDiscount |-> Int2Num(0)]

\* the useState calls of App
ClientStart ==
    [salesData |-> <<>>, loading |-> FALSE, searchTerm |-> <<>>, currentPage |-> 1,
     totalPages |-> 1, totalRecords |-> 0, statistics |-> NoStatistics,
     selectedFilters |-> NoFilters,
     sortBy |-> <<"d", "a", "t", "e", "-", "n", "e", "w", "e", "s", "t">>]

\* x || 1 and x || 0 on a number
OrElse(x, default) == IF x = 0 THEN default ELSE x

\* + and - on finite Numbers
NumAdd(x, y) == Number(x.num * y.den + y.num * x.den, x.den * y.den)
NumSub(x, y) == Number(x.num * y.den - y.num * x.den, x.den * y.den)

\* the three reduce calls over data.data, from the left
RECURSIVE Statistics(_)
Statistics(data) ==
    IF data = <<>> THEN NoStatistics
    ELSE LET sum == Statistics(SubSeq(data, 1, Len(data) - 1))
             record == data[Len(data)]
         IN  [totalUnits |-> sum.totalUnits + record["Quantity"],
              totalAmount |-> NumAdd(sum.totalAmount, record["Total Amount"]),
              totalDiscount |->
                  NumAdd(sum.totalDiscount,
                         NumSub(record["Total Amount"], record["Final Amount"]))]

\* the response whose fetch was rejected (no HTTP response at all)
NetworkError == [status |-> 0]

\* fetchSalesData after its awaits: a response that is not ok, or a rejected fetch,
\* empties the table; a successful one sets the table, totalPages, totalRecords and
\* the statistics; finally loading is set to false
fetchSalesDataAfter(c, resp) ==
    LET d == IF resp.status # 200 THEN [c EXCEPT !.salesData = <<>>]
             ELSE IF resp.success
             THEN [c EXCEPT !.salesData = resp.data,
                            !.totalPages = OrElse(resp.pagination.totalPages, 1),
                            !.totalRecords = OrElse(resp.pagination.totalRecords, 0),
                            !.statistics = Statistics(resp.data)]
             ELSE c
    IN  [d EXCEPT !.loading = FALSE]

\* the client takes the response of the list request
FetchSalesDataReceive ==
    /\ pc = "responded"
    /\ pc' = "delivered"
    /\ client' = fetchSalesDataAfter(client, response)
    /\ UNCHANGED <<query, tz, nodeEnv, params, whereClause, orderBy, skip, pageRead,
                   countRead, rawData, totalRecords, response, trace, previous, options,
                   store, walked, inflight, issued, latest, seed>>

NextClient == Next \/ FetchSalesDataReceive

\* --------------------------------------------- the client and its requests

\* what the client's handlers leave alone
outside == <<query, tz, nodeEnv, pc, params, whereClause, orderBy, skip, pageRead,
             countRead, rawData, totalRecords, response, trace, previous, options,
             store, walked, seed>>

\* what the user of the client types and ticks
SearchTerms == {<<>>, <<"b">>}
FilterChoices == {<<"gender", F>>, <<"gender", M>>, <<"ageMin", <<"1", "1">>>>}

\* a parameter appended to the URLSearchParams when its value is not empty
Param(value) == IF value # <<>> THEN Str(value) ELSE Undefined

\* the query string that fetchSalesData builds, as req.query receives it (the
\* parameter limit, which no handler reads, is left out)
RequestOf(c) ==
    [EmptyQuery EXCEPT
        !.search = Param(c.searchTerm),
        !.customerRegion = Param(StrJoin(c.selectedFilters.customerRegions)),
        !.gender = Param(StrJoin(c.selectedFilters.gender)),
        !.ageMin = Param(c.selectedFilters.ageMin),
        !.ageMax = Param(c.selectedFilters.ageMax),
        !.productCategory = Param(StrJoin(c.selectedFilters.productCategories)),
        !.tags = Param(StrJoin(c.selectedFilters.tags)),
        !.paymentMethod = Param(StrJoin(c.selectedFilters.paymentMethods)),
        !.dateFrom = Param(c.selectedFilters.dateFrom),
        !.dateTo = Param(c.selectedFilters.dateTo),
        !.sort = Str(c.sortBy),
        !.page = Str(NumberToString(c.currentPage))]

\* the responses the list endpoint may send for a query: the 200 of each page the
\* reads may return, or the 500 of a failed read or of a rejected parameter
Answers(q) ==
    LET p == validateQueryParams(q, tz)
        where == IF p.threw THEN TypeError
                 ELSE buildWhereClause(p.search, p.filters, tz)
    IN  IF where = TypeError THEN {FailureResponse("TypeError")}
        ELSE {SuccessResponse(p, rows, count(where)) :
                rows \in findMany(where, buildOrderBy(p.sort),
                                  Skip(p.page, p.pageSize), p.pageSize)}
             \cup {FailureResponse("Failed to fetch sales data")}

\* fetchSalesData up to its await: loading is set and the request leaves
FetchStart(c) ==
    /\ issued < MaxRequests
    /\ client' = [c EXCEPT !.loading = TRUE]
    /\ issued' = issued + 1
    /\ inflight' = inflight \cup {[seq |-> issued + 1, query |-> RequestOf(c)]}
    /\ latest' = Undefined

\* a handler has set the state c; the effect on [searchTerm, selectedFilters,
\* sortBy, currentPage] runs fetchSalesData when one of them changed
Rerender(c, changed) ==
    IF changed THEN FetchStart(c)
    ELSE client' = c /\ UNCHANGED <<inflight, issued, latest>>

\* the first render: the effect runs fetchSalesData
Mount ==
    /\ issued = 0
    /\ FetchStart(client)
    /\ UNCHANGED outside

Mounted == issued > 0

\* currentValues.includes(value) ? currentValues.filter(v => v !== value)
\*                                : [...currentValues, value]
Toggle(values, value) ==
    IF value \in SeqRange(values) THEN SelectSeq(values, LAMBDA v : v # value)
    ELSE Append(values, value)

\* handleFilterChange that also puts the sort back to its first option
handleFilterChange_ResetsSort(c, filterType, value) ==
    [c EXCEPT !.selectedFilters[filterType] =
                    IF filterType \in ArrayFilters THEN Toggle(@, value) ELSE value,
              !.currentPage = 1,
              !.sortBy = <<"d", "a", "t", "e", "-", "n", "e", "w", "e", "s", "t">>]

handleFilterChange(c, filterType, value) ==
    [c EXCEPT !.selectedFilters[filterType] =
                    IF filterType \in ArrayFilters THEN Toggle(@, value) ELSE value,
              !.currentPage = 1]

\* a checkbox of a filter dropdown or an input of the age filter changes; the new
\* selectedFilters object always runs the effect
FilterChange ==
    /\ Mounted
    /\ \E choice \in FilterChoices :
            Rerender(handleFilterChange(client, choice[1], choice[2]), TRUE)
    /\ UNCHANGED outside

activeFilterCount(c) ==
    LET f == c.selectedFilters
    IN  One(f.customerRegions # <<>>) + One(f.gender # <<>>)
        + One(f.ageMin # <<>> \/ f.ageMax # <<>>) + One(f.productCategories # <<>>)
        + One(f.tags # <<>>) + One(f.paymentMethods # <<>>)
        + One(f.dateFrom # <<>> \/ f.dateTo # <<>>)

clearFilters(c) == [c EXCEPT !.selectedFilters = NoFilters, !.currentPage = 1]

\* the Clear All button, shown while a filter is active
ClearFilters ==
    /\ Mounted
    /\ activeFilterCount(client) > 0
    /\ Rerender(clearFilters(client), TRUE)
    /\ UNCHANGED outside

\* the search input changes
SearchChange ==
    /\ Mounted
    /\ \E term \in SearchTerms \ {client.searchTerm} :
            Rerender([client EXCEPT !.searchTerm = term, !.currentPage = 1], TRUE)
    /\ UNCHANGED outside

\* the sort select changes
SortChange ==
    /\ Mounted
    /\ \E token \in SortOptions \ {client.sortBy} :
            Rerender([client EXCEPT !.sortBy = token, !.currentPage = 1], TRUE)
    /\ UNCHANGED outside

\* the pagination controls are rendered when the table is
PaginationShown == ~client.loading /\ client.salesData # <<>>

\* a click sets currentPage; the effect runs when the page changed
GoToPage(page) ==
    Rerender([client EXCEPT !.currentPage = page], page # client.currentPage)

\* the previous button, disabled at page 1
PreviousPage ==
    /\ PaginationShown
    /\ IF client.currentPage = 1 THEN UNCHANGED <<client, inflight, issued, latest>>
       ELSE GoToPage(Max(1, client.currentPage - 1))
    /\ UNCHANGED outside

\* the next button, disabled at page totalPages
NextPage ==
    /\ PaginationShown
    /\ IF client.currentPage = client.totalPages
       THEN UNCHANGED <<client, inflight, issued, latest>>
       ELSE GoToPage(Min(client.totalPages, client.currentPage + 1))
    /\ UNCHANGED outside

\* the number on the i-th page button
PageNum(i, total, current) ==
    IF total <= 6 THEN i + 1
    ELSE IF current <= 3 THEN i + 1
    ELSE IF current >= total - 2 THEN total - 5 + i
    ELSE current - 2 + i

\* one of the Math.min(6, totalPages) page buttons
PageClick ==
    /\ PaginationShown
    /\ \E i \in 0..(Min(6, client.totalPages) - 1) :
            GoToPage(PageNum(i, client.totalPages, client.currentPage))
    /\ UNCHANGED outside

\* a request in flight comes back, in any order: with a response of the endpoint,
\* or rejected
FetchSalesDataSettle ==
    /\ \E r \in inflight :
        \E resp \in Answers(r.query) \cup {NetworkError} :
            /\ client' = fetchSalesDataAfter(client, resp)
            /\ inflight' = inflight \ {r}
            /\ latest' = IF r.seq = issued THEN resp ELSE latest
    /\ UNCHANGED <<issued, outside>>

NextBrowser ==
    \/ Mount
    \/ FilterChange
    \/ ClearFilters
    \/ SearchChange
    \/ SortChange
    \/ PreviousPage
    \/ NextPage
    \/ PageClick
    \/ FetchSalesDataSettle

\* ------------------------------------------- the same request, issued again

\* the request that was answered 200 arrives once more; the store is unchanged
Reissue ==
    /\ pc = "responded"
    /\ response.status = 200
    /\ previous = Undefined
    /\ previous' = response
    /\ pc' = "received"
    /\ params' = Undefined
    /\ whereClause' = Undefined
    /\ orderBy' = Undefined
    /\ skip' = Int2Num(0)
    /\ pageRead' = "idle"
    /\ countRead' = "idle"
    /\ rawData' = <<>>
    /\ totalRecords' = 0
    /\ response' = Undefined
    /\ trace' = <<>>
    /\ UNCHANGED <<query, tz, nodeEnv, client, options, store, walked, inflight,
                   issued, latest, seed>>

NextRepeat == Next \/ Reissue

\* --------------------------------- a caller that walks the pages of a request

\* the caller has page p answered 200 and asks for page p + 1 of the same request,
\* up to the totalPages of the answer; the store is unchanged
RequestNextPage ==
    /\ pc = "responded"
    /\ response.status = 200
    /\ params.page.num < response.pagination.totalPages
    /\ walked' = walked \o response.data
    /\ query' = [query EXCEPT !.page = Str(NumberToString(params.page.num + 1))]
    /\ pc' = "received"
    /\ params' = Undefined
    /\ whereClause' = Undefined
    /\ orderBy' = Undefined
    /\ skip' = Int2Num(0)
    /\ pageRead' = "idle"
    /\ countRead' = "idle"
    /\ rawData' = <<>>
    /\ totalRecords' = 0
    /\ response' = Undefined
    /\ trace' = <<>>
    /\ UNCHANGED <<tz, nodeEnv, client, previous, options, store, inflight, issued,
                   latest, seed>>

NextWalk == Next \/ RequestNextPage

\* --------------------------------------------- the seeding script (seed.ts)

\* the document that the data handler builds from the r-th row of the file; of its
\* fields only the row it came from is kept
Transaction(r) == [row |-> r]

\* the script as it starts: deleteMany is awaited, nothing is parsed
SeedStart(rows) ==
    [phase |-> "clearing", rows |-> rows, transactions |-> <<>>, totalInserted |-> 0,
     totalParsed |-> 0, exit |-> Undefined]

\* what the steps of the script leave alone
listRequest == <<query, tz, nodeEnv, pc, params, whereClause, orderBy, skip, pageRead,
                 countRead, rawData, totalRecords, response, trace, client, previous,
                 options, walked, inflight, issued, latest>>

\* the documents written for a batch, each under a new id
Inserted(batch) ==
    {[id |-> Cardinality(store) + j, row |-> batch[j].row] : j \in 1..Len(batch)}

\* deleteMany({}) resolves: the collection is empty and the stream is opened
SeedClear ==
    /\ seed.phase = "clearing"
    /\ store' = {}
    /\ seed' = [seed EXCEPT !.phase = "streaming"]
    /\ UNCHANGED listRequest

\* deleteMany rejects: the outer catch exits with status 1
SeedClearReject ==
    /\ seed.phase = "clearing"
    /\ seed' = [seed EXCEPT !.phase = "exited", !.exit = 1]
    /\ UNCHANGED <<store, listRequest>>

\* the data handler up to its await: the row is counted and pushed; a full buffer
\* pauses the stream and starts createMany
SeedRow ==
    /\ seed.phase = "streaming"
    /\ seed.totalParsed < seed.rows
    /\ LET batch == Append(seed.transactions, Transaction(seed.totalParsed + 1))
       IN  seed' = [seed EXCEPT !.totalParsed = @ + 1,
                                !.transactions = batch,
                                !.phase = IF Len(batch) >= batchSize
                                          THEN "inserting" ELSE @]
    /\ UNCHANGED <<store, listRequest>>

\* the end handler up to its await: a buffer that is not empty starts the final
\* createMany; with an empty one the script reports success and exits with 0
SeedEnd ==
    /\ seed.phase = "streaming"
    /\ seed.totalParsed = seed.rows
    /\ seed' = IF seed.transactions # <<>> THEN [seed EXCEPT !.phase = "final"]
               ELSE [seed EXCEPT !.phase = "exited", !.exit = 0]
    /\ UNCHANGED <<store, listRequest>>

\* createMany resolves: in the data handler the total grows, the buffer is emptied
\* and the stream resumed; in the end handler the total grows and the script exits
\* with 0
CreateManyResolve ==
    /\ seed.phase \in {"inserting", "final"}
    /\ store' = store \cup Inserted(seed.transactions)
    /\ seed' = IF seed.phase = "inserting"
               THEN [seed EXCEPT !.totalInserted = @ + Len(seed.transactions),
                                 !.transactions = <<>>, !.phase = "streaming"]
               ELSE [seed EXCEPT !.totalInserted = @ + Len(seed.transactions),
                                 !.phase = "exited", !.exit = 0]
    /\ UNCHANGED listRequest

\* createMany rejects, having written none or some of the documents: the catch
\* logs, the buffer and the total stay; the data handler resumes the stream, the
\* end handler reports success and exits with 0
CreateManyReject ==
    /\ seed.phase \in {"inserting", "final"}
    /\ \E k \in 0..(Len(seed.transactions) - 1) :
            store' = store \cup Inserted(SubSeq(seed.transactions, 1, k))
    /\ seed' = IF seed.phase = "inserting" THEN [seed EXCEPT !.phase = "streaming"]
               ELSE [seed EXCEPT !.phase = "exited", !.exit = 0]
    /\ UNCHANGED listRequest

\* the stream emits error: the script exits with 1
SeedStreamError ==
    /\ seed.phase \in {"streaming", "inserting"}
    /\ seed' = [seed EXCEPT !.phase = "exited", !.exit = 1]
    /\ UNCHANGED <<store, listRequest>>

NextSeed ==
    \/ SeedClear
    \/ SeedClearReject
    \/ SeedRow
    \/ SeedEnd
    \/ CreateManyResolve
    \/ CreateManyReject
    \/ SeedStreamError

\* ------------------------------------------ SalesService.getFilterOptions

\* Array.prototype.sort() of distinct strings: ascending by code units
RECURSIVE SortAsc(_)
SortAsc(S) ==
    IF S = {} THEN <<>>
    ELSE LET m == CHOOSE x \in S : \A y \in S \ {x} : StrLess(x, y)
         IN  <<m>> \o SortAsc(S \ {m})

\* the documents of the filtered list request in place of all documents
CatalogDocs_Filtered ==
    IF whereClause = Undefined THEN store ELSE Matching(whereClause)

\* findMany({select}) without a where: all documents
CatalogDocs == store

\* Array.from(new Set(allFields.map(f => f[field]).filter(Boolean))).sort()
DistinctValues(field) == SortAsc({doc[field] : doc \in CatalogDocs} \ {<<>>})

\* Array.from(new Set(allFields.flatMap(f => f.tags || []).filter(Boolean))).sort()
DistinctTags == SortAsc(UNION {SeqRange(doc.tags) : doc \in CatalogDocs} \ {<<>>})

getFilterOptions ==
    [customerRegions |-> DistinctValues("customerRegion"),
     genders |-> DistinctValues("gender"),
     productCategories |-> DistinctValues("productCategory"),
     paymentMethods |-> DistinctValues("paymentMethod"),
     orderStatuses |-> DistinctValues("orderStatus"),
     deliveryTypes |-> DistinctValues("deliveryType"),
     brands |-> DistinctValues("brand"),
     tags |-> DistinctTags]

\* the filter options endpoint, asked at any moment of a list request: its read
\* resolves and the controller answers 200 with the catalog
GetFilterOptionsResolve ==
    /\ options = Undefined
    /\ options' = [status |-> 200, success |-> TRUE, data |-> getFilterOptions]
    /\ UNCHANGED <<query, tz, nodeEnv, pc, params, whereClause, orderBy, skip, pageRead,
                   countRead, rawData, totalRecords, response, trace, client, previous,
                   store, walked, inflight, issued, latest, seed>>

\* its read rejects: the service throws and the controller answers 500
GetFilterOptionsReject ==
    /\ options = Undefined
    /\ options' = [status |-> 500, success |-> FALSE,
                   message |-> "Failed to fetch filter options",
                   error |-> "Failed to fetch filter options"]
    /\ UNCHANGED <<query, tz, nodeEnv, pc, params, whereClause, orderBy, skip, pageRead,
                   countRead, rawData, totalRecords, response, trace, client, previous,
                   store, walked, inflight, issued, latest, seed>>

NextCatalog == Next \/ GetFilterOptionsResolve \/ GetFilterOptionsReject

\* ------------------------------------------------------------ the requests

TimeZones == {0 - 300, 0, 330}
NodeEnvs == {"production", "development"}

Strings(chars, n) == UNION {[1..k -> chars] : k \in 0..n}

Start ==
    /\ pc = "received"
    /\ params = Undefined
    /\ whereClause = Undefined
    /\ orderBy = Undefined
    /\ skip = Int2Num(0)
    /\ pageRead = "idle"
    /\ countRead = "idle"
    /\ rawData = <<>>
    /\ totalRecords = 0
    /\ response = Undefined
    /\ trace = <<>>
    /\ client = ClientStart
    /\ previous = Undefined
    /\ options = Undefined
    /\ store = Dataset
    /\ walked = <<>>
    /\ inflight = {}
    /\ issued = 0
    /\ latest = Undefined
    /\ seed = Undefined

\* page and pageSize: one of them any string or array tried, the other absent or "1"
IntChars == {"0", "1", "-", "x", " "}
ManyNines == [i \in 1..(MaxValueDigits + 1) |-> "9"]
IntRaws ==
    {Str(s) : s \in Strings(IntChars, MaxLen)}
        \cup {Str(ManyNines), Str(<<"-">> \o ManyNines)}
        \cup {Arr(<<a>>) : a \in Strings({"0", "1"}, 1)}
        \cup {Arr(<<a, b>>) : a, b \in Strings({"0", "1"}, 1)}

PagingQueries ==
    {[EmptyQuery EXCEPT !.page = v, !.pageSize = w] :
        v \in IntRaws, w \in {Undefined, Str(<<"1">>)}}
    \cup {[EmptyQuery EXCEPT !.pageSize = v, !.page = w] :
        v \in IntRaws, w \in {Undefined, Str(<<"1">>)}}

InitPaging == query \in PagingQueries /\ tz = 0 /\ nodeEnv = "production" /\ Start

SpecPaging == InitPaging /\ [][Next]_vars

\* search: any string tried or an array, alone or beside a gender filter
SearchChars == {"a", "A", "b", " "}
SearchRaws ==
    {Str(s) : s \in Strings(SearchChars, MaxSearchLen)}
        \cup {Arr(<<>>), Arr(<< <<"a">> >>), Arr(<< <<"a">>, <<" ">> >>)}

SearchQueries ==
    {[EmptyQuery EXCEPT !.search = v, !.gender = w] :
        v \in SearchRaws, w \in {Undefined, Str(M)}}

InitSearch == query \in SearchQueries /\ tz = 0 /\ nodeEnv \in NodeEnvs /\ Start

SpecSearch == InitSearch /\ [][Next]_vars

\* one multi-select key with any string tried or an array of items, alone or
\* beside a second filter
ListChars == {"M", "F", ",", " "}
ArrItems == {<<>>, <<" ">>, M, F, <<" ", "M">>, <<"M", ",", "F">>}
ListRaws ==
    {Str(s) : s \in Strings(ListChars, MaxListLen)}
        \cup {Arr(<<a>>) : a \in ArrItems}
        \cup {Arr(<<a, b>>) : a, b \in ArrItems}

SecondFilters ==
    {EmptyQuery,
     [EmptyQuery EXCEPT !.gender = Str(M)],
     [EmptyQuery EXCEPT !.tags = Str(<<"F", ",", "M", "F">>)]}

ListQueries ==
    {[q EXCEPT ![k] = v] : q \in SecondFilters, k \in MultiKeys, v \in ListRaws}

InitLists == query \in ListQueries /\ tz = 0 /\ nodeEnv = "production" /\ Start

SpecLists == InitLists /\ [][Next]_vars

\* one numeric bound with any string tried or an array, the other bound of the
\* same field absent, "0" or "1"
NumChars == {"0", "1", "-", ".", "x"}
NumRaws ==
    {Str(s) : s \in Strings(NumChars, MaxLen)}
        \cup {Str(<<" ", "1">>), Str(<<"+", "1">>), Arr(<< <<"1">> >>),
              Arr(<< <<"0">>, <<"1">> >>), Str(ManyNines), Str(<<"-">> \o ManyNines)}

OtherBound(k) ==
    CASE k = "ageMin" -> "ageMax" [] k = "ageMax" -> "ageMin"
      [] k = "priceMin" -> "priceMax" [] OTHER -> "priceMin"

RangeQueries ==
    {[[EmptyQuery EXCEPT ![OtherBound(k)] = w] EXCEPT ![k] = v] :
        k \in IntKeys \cup FloatKeys, v \in NumRaws,
        w \in {Undefined, Str(<<"0">>), Str(<<"1">>)}}

InitRanges == query \in RangeQueries /\ tz = 0 /\ nodeEnv = "production" /\ Start

SpecRanges == InitRanges /\ [][Next]_vars

\* dateFrom and dateTo: calendar dates, dates with a time of day, strings that are
\* no date, an array; in each server time zone
Jan2 == <<"1", "9", "7", "0", "-", "0", "1", "-", "0", "2">>
Jan3 == <<"1", "9", "7", "0", "-", "0", "1", "-", "0", "3">>
DateRaws ==
    {Undefined, Str(<<>>), Str(<<"x">>), Str(Jan2), Str(Jan3),
     Str(<<"1", "9", "7", "0", "-", "1", "3", "-", "0", "1">>),
     Str(Jan2 \o <<"T", "1", "0", ":", "0", "0">>),
     Str(Jan2 \o <<"T", "0", "0", ":", "0", "0", "Z">>),
     Arr(<<Jan2>>)}

DateQueries ==
    {[EmptyQuery EXCEPT !.dateFrom = v, !.dateTo = w] : v, w \in DateRaws}

InitDates == query \in DateQueries /\ tz \in TimeZones /\ nodeEnv = "production" /\ Start

SpecDates == InitDates /\ [][Next]_vars

\* a sort parameter (each token of the service, the two tokens name-az and name-za
\* that it does not know, an empty string, an array) beside a page, a pageSize and a gender filter
SortRaws ==
    {Undefined, Str(<<>>),
     Str(<<"d", "a", "t", "e", "-", "n", "e", "w", "e", "s", "t">>),
     Str(<<"d", "a", "t", "e", "-", "o", "l", "d", "e", "s", "t">>),
     Str(<<"q", "u", "a", "n", "t", "i", "t", "y", "-", "h", "i", "g", "h">>),
     Str(<<"q", "u", "a", "n", "t", "i", "t", "y", "-", "l", "o", "w">>),
     Str(<<"n", "a", "m", "e", "-", "a", "s", "c">>),
     Str(<<"n", "a", "m", "e", "-", "d", "e", "s", "c">>),
     Str(<<"n", "a", "m", "e", "-", "a", "z">>),
     Str(<<"n", "a", "m", "e", "-", "z", "a">>),
     Str(<<" ", "d", "a", "t", "e", "-", "o", "l", "d", "e", "s", "t">>),
     Arr(<< <<"d", "a", "t", "e", "-", "o", "l", "d", "e", "s", "t">> >>)}

PageRaws(max) == {Undefined} \cup {Str(<<DigitChar(n)>>) : n \in 1..max}

SortQueries ==
    {[EmptyQuery EXCEPT !.sort = s, !.page = p, !.pageSize = ps, !.gender = g] :
        s \in SortRaws, p \in PageRaws(MaxPage), ps \in PageRaws(MaxPageSize),
        g \in {Undefined, Str(M), Str(<<"x">>)}}

InitSort == query \in SortQueries /\ tz = 0 /\ nodeEnv = "production" /\ Start

SpecSort == InitSort /\ [][Next]_vars

\* the sort requests with the client that takes the response
SpecClient == InitSort /\ [][NextClient]_vars

\* the sort requests, each issued a second time after its answer
SpecRepeat == InitSort /\ [][NextRepeat]_vars

\* the sort requests for the first page, with a caller that walks the pages
WalkQueries == {q \in SortQueries : q.page \in {Undefined, Str(<<"1">>)}}

InitWalk == query \in WalkQueries /\ tz = 0 /\ nodeEnv = "production" /\ Start

SpecWalk == InitWalk /\ [][NextWalk]_vars

\* the client before its first render, before a collection of two pages
InitBrowser ==
    /\ query = EmptyQuery
    /\ tz = 0
    /\ nodeEnv = "production"
    /\ pc = "received"
    /\ params = Undefined
    /\ whereClause = Undefined
    /\ orderBy = Undefined
    /\ skip = Int2Num(0)
    /\ pageRead = "idle"
    /\ countRead = "idle"
    /\ rawData = <<>>
    /\ totalRecords = 0
    /\ response = Undefined
    /\ trace = <<>>
    /\ client = ClientStart
    /\ previous = Undefined
    /\ options = Undefined
    /\ store = Ledger
    /\ walked = <<>>
    /\ inflight = {}
    /\ issued = 0
    /\ latest = Undefined
    /\ seed = Undefined

SpecBrowser == InitBrowser /\ [][NextBrowser]_vars

\* the seeding script run on a file of 0..MaxRows rows, over the collection of a
\* previous load
InitSeed ==
    /\ query = EmptyQuery
    /\ tz = 0
    /\ nodeEnv = "production"
    /\ pc = "received"
    /\ params = Undefined
    /\ whereClause = Undefined
    /\ orderBy = Undefined
    /\ skip = Int2Num(0)
    /\ pageRead = "idle"
    /\ countRead = "idle"
    /\ rawData = <<>>
    /\ totalRecords = 0
    /\ response = Undefined
    /\ trace = <<>>
    /\ client = ClientStart
    /\ previous = Undefined
    /\ options = Undefined
    /\ store = Dataset
    /\ walked = <<>>
    /\ inflight = {}
    /\ issued = 0
    /\ latest = Undefined
    /\ \E rows \in 0..MaxRows : seed = SeedStart(rows)

SpecSeed == InitSeed /\ [][NextSeed]_vars

\* the search requests with the filter options endpoint asked beside them
SpecCatalog == InitSearch /\ [][NextCatalog]_vars

Init ==
    /\ query \in PagingQueries \cup SearchQueries \cup ListQueries
                    \cup RangeQueries \cup DateQueries \cup SortQueries
    /\ tz \in (IF query \in DateQueries THEN TimeZones ELSE {0})
    /\ nodeEnv \in (IF query \in SearchQueries THEN NodeEnvs ELSE {"production"})
    /\ Start

Spec == Init /\ [][Next]_vars

\* ================================================================== claims

Validated == pc # "received" /\ params # Undefined

\* C1: the validated page is a positive integer, and it is 1 whenever the page
\* parameter is absent, does not parse as an integer, or parses to a value <= 0
C1_PagePositiveDefault1 ==
    Validated =>
        /\ IsInteger(params.page)
        /\ params.page.num >= 1
        /\ (\/ query.page = Undefined
            \/ IsNaN(parseInt(query.page))
            \/ parseInt(query.page).num <= 0) => params.page = Int2Num(1)

\* C2: the validated pageSize is in 1..100, and it is 10 whenever the pageSize
\* parameter is absent, does not parse as an integer, is <= 0, or is > 100
C2_PageSizeBoundedDefault10 ==
    Validated =>
        /\ params.pageSize \in 1..100
        /\ (\/ query.pageSize = Undefined
            \/ IsNaN(parseInt(query.pageSize))
            \/ parseInt(query.pageSize).num <= 0
            \/ parseInt(query.pageSize).num > 100) => params.pageSize = 10

\* a pageSize parameter that parses to more than 100 was validated to 10
C2_Witness ==
    /\ Validated
    /\ ~IsNaN(parseInt(query.pageSize))
    /\ parseInt(query.pageSize).num > 100
    /\ params.pageSize = 10
    /\ pc = "responded"

\* C3: no input makes the request fail: validateQueryParams and buildWhereClause
\* raise no exception, and a response sent when no read has failed is 200, success
C3_NoInputError ==
    /\ ~validateQueryParams(query, tz).threw
    /\ Validated => whereClause # TypeError
    /\ (pc = "responded" /\ pageRead # "failed" /\ countRead # "failed") =>
            /\ Validated
            /\ response.status = 200
            /\ response.success

\* a request whose search parameter is an array and whose page is no number was
\* answered 200
C3_Witness ==
    /\ pc = "responded"
    /\ query.search.t = "array"
    /\ response.status = 200
    /\ response.success

\* a multi-select list holds only trimmed, non-empty tokens without a comma
CleanTokens(l) ==
    \A i \in 1..Len(l) : l[i] # <<>> /\ StrTrim(l[i]) = l[i] /\ "," \notin SeqRange(l[i])

\* C4: every element of every multi-select list of the validated request is a
\* trimmed, non-empty token with no comma-separated part left unsplit, whether the
\* parameter was a string or an array
C4_ListTokensClean ==
    Validated =>
        \A k \in MultiKeys :
            params.filters[k] # Undefined => CleanTokens(params.filters[k].l)

\* C5: the validated search term is absent or a non-empty trimmed string, and a
\* blank search parameter gives the validated request of a request without one
C5_SearchAbsentOrTrimmed ==
    Validated =>
        /\ \/ params.search = Undefined
           \/ /\ params.search.t = "string"
              /\ params.search.s # <<>>
              /\ StrTrim(params.search.s) = params.search.s
        /\ (query.search.t = "string" /\ StrTrim(query.search.s) = <<>>) =>
              params = validateQueryParams([query EXCEPT !.search = Undefined], tz)

\* the raw value starts, after blanks and a sign, with a number: a digit, or for a
\* decimal also a point and a digit
StartsNumber(raw, decimal) ==
    LET s == StrTrimStart(JSToString(raw))
        body == IF s # <<>> /\ Head(s) \in {"-", "+"} THEN Tail(s) ELSE s
    IN  /\ raw # Undefined
        /\ body # <<>>
        /\ \/ IsDigit(body[1])
           \/ decimal /\ body[1] = "." /\ Len(body) >= 2 /\ IsDigit(body[2])

ParsedBound(raw, decimal) == IF decimal THEN parseFloat(raw) ELSE parseInt(raw)

\* the bound k of the validated FilterSet is there iff the parameter parses as a
\* number that is >= 0, and then it is that number
BoundKeptIff(k, decimal) ==
    LET kept == params.filters[k] # Undefined
        n == ParsedBound(query[k], decimal)
    IN  /\ kept <=> (StartsNumber(query[k], decimal) /\ n.num >= 0)
        /\ kept => params.filters[k] = n
        /\ query[k] = Str(<<"0">>) => kept /\ params.filters[k].num = 0

\* C6: each numeric bound is in the validated FilterSet iff its parameter parses as
\* a number >= 0; 0 is kept, a negative or non-numeric value leaves it unconstrained
C6_NumericBoundIff ==
    Validated =>
        /\ \A k \in IntKeys : BoundKeptIff(k, FALSE)
        /\ \A k \in FloatKeys : BoundKeptIff(k, TRUE)

\* ageMin=0 was kept as the bound 0 and reached the age condition
C6_Witness ==
    /\ pc = "responded"
    /\ query.ageMin = Str(<<"0">>)
    /\ params.filters.ageMin = Int2Num(0)
    /\ whereClause.t = "and"
    /\ whereClause.AND[1].field = "age"
    /\ whereClause.AND[1].gte = Int2Num(0)

\* the constraints present in the validated request
SearchPresent == params.search # Undefined /\ StrTrim(params.search.s) # <<>>
ListPresent(k) == params.filters[k] # Undefined /\ params.filters[k].l # <<>>
AgePresent == params.filters.ageMin # Undefined \/ params.filters.ageMax # Undefined
DatePresent == params.filters.dateFrom # Undefined \/ params.filters.dateTo # Undefined
PricePresent == params.filters.priceMin # Undefined \/ params.filters.priceMax # Undefined

Conditions == IF whereClause.t = "and" THEN whereClause.AND ELSE <<>>
ConditionsOn(field) == {i \in 1..Len(Conditions) : Conditions[i].field = field}

\* C7: buildWhereClause emits exactly one condition for each constraint present and
\* none for an absent or empty one, joins them by AND, and gives the empty predicate
\* when none is emitted
C7_OneConditionPerConstraint ==
    Validated =>
        /\ Cardinality(ConditionsOn("OR")) = One(SearchPresent)
        /\ \A k \in MultiKeys : Cardinality(ConditionsOn(k)) = One(ListPresent(k))
        /\ Cardinality(ConditionsOn("age")) = One(AgePresent)
        /\ Cardinality(ConditionsOn("date")) = One(DatePresent)
        /\ Cardinality(ConditionsOn("finalAmount")) = One(PricePresent)
        /\ \A i \in 1..Len(Conditions) :
                Conditions[i].field \in MultiKeys \cup {"OR", "age", "date", "finalAmount"}
        /\ whereClause.t \in {"empty", "and"}
        /\ whereClause.t = "empty" <=> Len(Conditions) = 0
        /\ whereClause.t = "empty" => Matching(whereClause) = Dataset

\* a request with a gender filter and a tags parameter that holds no token got one
\* condition, on gender
C7_Witness ==
    /\ pc = "responded"
    /\ params.filters.tags = List(<<>>)
    /\ ListPresent("gender")
    /\ Len(Conditions) = 1
    /\ Conditions[1].field = "gender"

DisplayName(k) ==
    CASE k = "customerRegion" -> "Customer Region"
      [] k = "gender" -> "Gender"
      [] k = "productCategory" -> "Product Category"
      [] k = "tags" -> "Tags"
      [] k = "paymentMethod" -> "Payment Method"
      [] k = "orderStatus" -> "Order Status"
      [] k = "deliveryType" -> "Delivery Type"
      [] OTHER -> "Brand"

\* the values a raw multi-select parameter supplies: the non-empty trimmed parts,
\* between commas, of the string or of every item of the array
SuppliedSet(raw) ==
    LET items == CASE raw.t = "array" -> SeqRange(raw.a)
                   [] raw.t = "string" -> {raw.s}
                   [] OTHER -> {}
    IN  UNION {SeqRange(MapTrim(StrSplit(it, <<>>))) : it \in items} \ {<<>>}

Answered200 == pc = "responded" /\ response.status = 200

\* C8: every returned record satisfies all multi-select filters at once: its field
\* is one of the supplied values of each single-valued filter, and its tags share
\* at least one element with the supplied tags
C8_ReturnedRecordsInSets ==
    Answered200 =>
        \A i \in 1..Len(response.data) : \A k \in MultiKeys :
            SuppliedSet(query[k]) # {} =>
                IF k = "tags"
                THEN SeqRange(response.data[i]["Tags"]) \cap SuppliedSet(query[k]) # {}
                ELSE response.data[i][DisplayName(k)] \in SuppliedSet(query[k])

\* a gender filter and a tags filter were both supplied, and a returned record has
\* a tag outside the supplied tags beside one inside them, while other records of
\* the store were left out
C8_Witness ==
    /\ Answered200
    /\ SuppliedSet(query.gender) # {}
    /\ SuppliedSet(query.tags) # {}
    /\ Len(response.data) < Cardinality(Dataset)
    /\ \E i \in 1..Len(response.data) :
          ~(SeqRange(response.data[i]["Tags"]) \subseteq SuppliedSet(query.tags))

IsCalendarDate(raw) == raw # Undefined /\ Len(JSToString(raw)) = 10

\* the record satisfies the age and price bounds of the validated request
InNumericBounds(doc) ==
    /\ params.filters.ageMin # Undefined => NumGe(Int2Num(doc.age), params.filters.ageMin)
    /\ params.filters.ageMax # Undefined => NumLe(Int2Num(doc.age), params.filters.ageMax)
    /\ params.filters.priceMin # Undefined => NumGe(doc.finalAmount, params.filters.priceMin)
    /\ params.filters.priceMax # Undefined => NumLe(doc.finalAmount, params.filters.priceMax)

\* the record is not before dateFrom, and not after the calendar day of dateTo
InDateBounds(doc) ==
    /\ params.filters.dateFrom # Undefined =>
            doc.date >= NewDate(params.filters.dateFrom, tz).ms
    /\ IsCalendarDate(params.filters.dateTo) =>
            doc.date \div MsPerDay <= NewDate(params.filters.dateTo, tz).ms \div MsPerDay

OnlyRange(field) ==
    /\ Cardinality(ConditionsOn(field)) = 1
    /\ \A i \in ConditionsOn(field) : Conditions[i].kind = "range"

C10_DateToCoversWholeDay ==
    (Validated /\ IsCalendarDate(params.filters.dateTo)) =>
        LET D == NewDate(params.filters.dateTo, tz).ms
        IN  /\ \A i \in ConditionsOn("date") : Conditions[i].lte.ms = D + MsPerDay - 1
            /\ (Answered200 /\ params.filters.dateFrom = params.filters.dateTo) =>
                    {rawData[i].id : i \in 1..Len(rawData)}
                        = {doc.id : doc \in {x \in Dataset : x.date \div MsPerDay = D \div MsPerDay}}

\* midnight (UTC) of the calendar day that the first ten characters of raw name
NamedDay(raw) == DateParse(SubSeq(JSToString(raw), 1, 10), 0).ms

\* C11: when dateFrom is accepted, the lower bound of the date condition is the
\* first millisecond of the calendar day dateFrom names (counted in UTC or in the
\* server's time zone), also when dateFrom carries a time of day, so that no record
\* of that day or of a later instant is left out
C11_DateFromStartOfDay ==
    (Validated /\ params.filters.dateFrom # Undefined) =>
        LET D == NamedDay(params.filters.dateFrom)
            L == D - tz * MsPerMinute
        IN  /\ \A i \in ConditionsOn("date") : Conditions[i].gte.ms \in {D, L}
            /\ (Answered200 /\ params.filters.dateTo = Undefined) =>
                    \A doc \in Dataset :
                        (doc.date >= D /\ doc.date >= L) =>
                            doc.id \in {rawData[i].id : i \in 1..Len(rawData)}

\* the range whose minimum exceeds its maximum: numbers by value, dates by the
\* calendar days the two parameters name
AgeInverted ==
    /\ params.filters.ageMin # Undefined /\ params.filters.ageMax # Undefined
    /\ NumGt(params.filters.ageMin, params.filters.ageMax)
PriceInverted ==
    /\ params.filters.priceMin # Undefined /\ params.filters.priceMax # Undefined
    /\ NumGt(params.filters.priceMin, params.filters.priceMax)
DateInverted ==
    /\ params.filters.dateFrom # Undefined /\ params.filters.dateTo # Undefined
    /\ NamedDay(params.filters.dateFrom) > NamedDay(params.filters.dateTo)

RangeOn(field) == Conditions[CHOOSE i \in ConditionsOn(field) : TRUE]

\* C12: an inverted range is neither rejected nor reordered nor dropped: its
\* condition holds the minimum as lower and the maximum as upper bound, and the
\* request, when no read fails, is answered 200 with no record, totalRecords = 0
\* and totalPages = 0
C12_InvertedRangeEmpty ==
    Validated =>
        /\ AgeInverted =>
                /\ OnlyRange("age")
                /\ RangeOn("age").gte = params.filters.ageMin
                /\ RangeOn("age").lte = params.filters.ageMax
        /\ PriceInverted =>
                /\ OnlyRange("finalAmount")
                /\ RangeOn("finalAmount").gte = params.filters.priceMin
                /\ RangeOn("finalAmount").lte = params.filters.priceMax
        /\ DateInverted =>
                /\ OnlyRange("date")
                /\ RangeOn("date").gte.ms = NewDate(params.filters.dateFrom, tz).ms
                /\ RangeOn("date").lte # Undefined
                /\ RangeOn("date").lte.ms >= NewDate(params.filters.dateTo, tz).ms
        /\ ( /\ AgeInverted \/ PriceInverted \/ DateInverted
             /\ pc = "responded" /\ pageRead # "failed" /\ countRead # "failed" ) =>
                /\ response.status = 200
                /\ response.success
                /\ response.data = <<>>
                /\ response.pagination.totalRecords = 0
                /\ response.pagination.totalPages = 0

\* the table of sort tokens: token, field, direction
SortTable ==
    { << <<"d", "a", "t", "e", "-", "n", "e", "w", "e", "s", "t">>, "date", "desc" >>,
      << <<"d", "a", "t", "e", "-", "o", "l", "d", "e", "s", "t">>, "date", "asc" >>,
      << <<"q", "u", "a", "n", "t", "i", "t", "y", "-", "h", "i", "g", "h">>, "quantity", "desc" >>,
      << <<"q", "u", "a", "n", "t", "i", "t", "y", "-", "l", "o", "w">>, "quantity", "asc" >>,
      << <<"n", "a", "m", "e", "-", "a", "s", "c">>, "customerName", "asc" >>,
      << <<"n", "a", "m", "e", "-", "d", "e", "s", "c">>, "customerName", "desc" >> }

RowsOf(raw) == {row \in SortTable : raw = Str(row[1])}

Offset == (params.page.num - 1) * params.pageSize
Matches == Cardinality(Matching(whereClause))

\* how many matching records the orderBy puts before, and after, the record
MustPrecede(doc) == Cardinality({d \in Matching(whereClause) : Before(d, doc, orderBy)})
MustFollow(doc) == Cardinality({d \in Matching(whereClause) : Before(doc, d, orderBy)})

\* C14: getSales skips (page - 1) * pageSize records and returns exactly
\* min(pageSize, max(0, M - offset)) of the M matching records, those at the
\* positions offset + 1, ... of the sorted matches; beyond the last page it returns
\* no record, with success, and totalRecords is M
C14_PageWindow ==
    Validated =>
        /\ skip = Int2Num(Offset)
        /\ Answered200 =>
            /\ Len(response.data) = Min(params.pageSize, Max(0, Matches - Offset))
            /\ response.pagination.totalRecords = Matches
            /\ Offset >= Matches => response.data = <<>> /\ response.success
            /\ \A i \in 1..Len(rawData) :
                    /\ rawData[i] \in Matching(whereClause)
                    /\ MustPrecede(rawData[i]) <= Offset + i - 1
                    /\ MustFollow(rawData[i]) <= Matches - (Offset + i)
            /\ \A i, j \in 1..Len(rawData) : i # j => rawData[i].id # rawData[j].id

\* a page beyond the last one of three matching records was answered with success,
\* no record and totalRecords = 3
C14_Witness ==
    /\ Answered200
    /\ Matches = 3
    /\ Offset >= Matches
    /\ response.data = <<>>
    /\ response.success
    /\ response.pagination.totalRecords = 3

\* the second page of size 3 of five matching records holds the last two
C14_PartialPage ==
    /\ Answered200
    /\ Matches = 5 /\ Offset = 3 /\ params.pageSize = 3
    /\ Len(response.data) = 2

\* n is the ceiling of a / b
IsCeil(n, a, b) == n * b >= a /\ (n - 1) * b < a

Delivered200 == pc = "delivered" /\ response.status = 200

\* C15: totalPages of every response is ceil(totalRecords / pageSize), and the
\* totalPages the client holds after taking a response is the totalPages the server
\* sent, also for an empty result
C15_TotalPagesCeilConsistent ==
    /\ (Answered200 \/ Delivered200) =>
            IsCeil(response.pagination.totalPages,
                   response.pagination.totalRecords, response.pagination.pageSize)
    /\ Delivered200 => client.totalPages = response.pagination.totalPages

\* the outcomes of the two reads in the order in which they settled
Settled == SelectSeq(trace, LAMBDA e : e \notin {"findMany", "count", "json"})

\* C16: the page read and the count read are given the same predicate, and the
\* response does not depend on which of them settles first: in every completion
\* order it is the success response built from the validated request, the page
\* read and the number of records matching the predicate that selected the page
C16_ReadsIndependent ==
    Answered200 =>
        /\ Settled \in {<<"findMany:ok", "count:ok">>, <<"count:ok", "findMany:ok">>}
        /\ whereClause = buildWhereClause(params.search, params.filters, tz)
        /\ rawData \in findMany(whereClause, orderBy, skip, params.pageSize)
        /\ \A i \in 1..Len(rawData) : rawData[i] \in Matching(whereClause)
        /\ totalRecords = Cardinality(Matching(whereClause))
        /\ response = SuccessResponse(params, rawData, Cardinality(Matching(whereClause)))

\* the count settled before the page read, and the response holds a page that is
\* shorter than the number of matching records it reports
C16_Witness ==
    /\ Answered200
    /\ Settled = <<"count:ok", "findMany:ok">>
    /\ Len(response.data) > 0
    /\ response.pagination.totalRecords > Len(response.data)
    /\ response.pagination.totalRecords < Cardinality(Dataset)

\* the same with the page read settled first
C16_PageFirst ==
    /\ Answered200
    /\ Settled = <<"findMany:ok", "count:ok">>
    /\ Len(response.data) > 0
    /\ response.pagination.totalRecords > Len(response.data)
    /\ response.pagination.totalRecords < Cardinality(Dataset)

\* how many times the event stands in the trace
Times(event) == Len(SelectSeq(trace, LAMBDA e : e = event))

ReadFailed == pageRead = "failed" \/ countRead = "failed"

\* C17: a list request fully succeeds or fully fails: when a read has failed,
\* whichever it is and whatever the other read did, the response is one 500 with
\* success = false, no records and no pagination block; each read is issued at most
\* once, and exactly one response is sent
C17_AllOrNothing ==
    /\ Times("findMany") <= 1 /\ Times("count") <= 1
    /\ Times("json") = (IF pc = "responded" THEN 1 ELSE 0)
    /\ (pc = "responded" /\ ReadFailed) =>
            /\ response.status = 500
            /\ ~response.success
            /\ DOMAIN response = {"status", "success", "message", "error"}
    /\ (pc = "responded" /\ ~ReadFailed) => Validated /\ response.status = 200
    /\ pc # "responded" => response = Undefined

\* the count had succeeded when the page read failed: one response, a 500, and it
\* stayed the only one
C17_Witness ==
    /\ Settled = <<"count:ok", "findMany:failed">>
    /\ pc = "responded"
    /\ response.status = 500
    /\ Times("json") = 1

\* the page read failed first and the count succeeded afterwards: the 500 stands
C17_LateSuccess ==
    /\ Settled = <<"findMany:failed", "count:ok">>
    /\ response.status = 500
    /\ Times("json") = 1

\* the failure response is generic, and carries the field error only when the
\* server does not run in production
GenericFailure(r) ==
    /\ ~r.success
    /\ r.message \in {"Failed to fetch sales data", "Failed to fetch filter options"}
    /\ "error" \in DOMAIN r => nodeEnv # "production"

\* C18: on a storage failure the response of the list endpoint and of the filter
\* options endpoint has success = false and a generic message, and holds the field
\* error only when NODE_ENV is not production
C18_DiagnosticOnlyInDevelopment ==
    /\ (pc = "responded" /\ response.status = 500) => GenericFailure(response)
    /\ (options # Undefined /\ options.status = 500) => GenericFailure(options)

\* the request was issued twice and both issues were answered 200
AnsweredTwice == Answered200 /\ previous # Undefined

\* two matching records have the same value in the sort field
SortTies ==
    \E d1, d2 \in Matching(whereClause) :
        d1.id # d2.id /\ ~Before(d1, d2, orderBy) /\ ~Before(d2, d1, orderBy)

\* C19: the same list request issued twice against the unchanged dataset is
\* answered with the same data array, record by record in the same order, and the
\* same totalRecords, also when matching records tie in the sort field
C19_SameRequestSameAnswer ==
    AnsweredTwice =>
        /\ response.data = previous.data
        /\ response.pagination.totalRecords = previous.pagination.totalRecords

\* the key of the catalog that lists the values of the set-membership field
OptionsKey(k) ==
    CASE k = "customerRegion" -> "customerRegions"
      [] k = "gender" -> "genders"
      [] k = "productCategory" -> "productCategories"
      [] k = "paymentMethod" -> "paymentMethods"
      [] k = "orderStatus" -> "orderStatuses"
      [] k = "deliveryType" -> "deliveryTypes"
      [] k = "brand" -> "brands"
      [] OTHER -> "tags"

\* the values of the field that occur in any record of the whole dataset
Occurring(k) ==
    IF k = "tags" THEN UNION {SeqRange(doc.tags) : doc \in Dataset}
    ELSE {doc[k] : doc \in Dataset}

\* strictly ascending by code units: in order and without duplicates
Ascending(s) == \A i, j \in 1..Len(s) : i < j => StrLess(s[i], s[j])

Catalog200 == options # Undefined /\ options.status = 200

\* C20 as stated: the catalog lists, for each of the eight set-membership fields,
\* exactly the distinct values that occur in any record of the whole dataset, in
\* ascending order without duplicates, whatever list request is in progress
C20_CatalogAllDistinct ==
    Catalog200 =>
        \A k \in MultiKeys :
            /\ SeqRange(options.data[OptionsKey(k)]) = Occurring(k)
            /\ Ascending(options.data[OptionsKey(k)])

\* C20, amended: the catalog lists exactly the distinct non-empty values that
\* occur in any record of the whole dataset, in ascending order without
\* duplicates, whatever list request is in progress
C20_CatalogNonEmptyDistinct ==
    Catalog200 =>
        /\ DOMAIN options.data = {OptionsKey(k) : k \in MultiKeys}
        /\ \A k \in MultiKeys :
            /\ SeqRange(options.data[OptionsKey(k)]) = Occurring(k) \ {<<>>}
            /\ Ascending(options.data[OptionsKey(k)])

\* the catalog was answered beside a list request with a search term and a gender
\* filter that returned fewer records than the store holds: it lists both genders
\* and the tags of all records
C20_Witness ==
    /\ Catalog200
    /\ Answered200
    /\ SearchPresent /\ ListPresent("gender")
    /\ Len(response.data) \in 1..(Cardinality(Dataset) - 1)
    /\ options.data.genders = <<F, M>>
    /\ options.data.tags = <<F, M, MF>>
    /\ options.data.brands = <<F, M, MF>>

\* the field of the predicate that carries the condition of a filter key
ConditionField(k) ==
    CASE k \in MultiKeys -> k
      [] k \in IntKeys -> "age"
      [] k \in DateKeys -> "date"
      [] OTHER -> "finalAmount"

\* the echoed sort is a token of the table and names the orderBy that was used
EchoedSortApplied ==
    response.sort # Undefined =>
        \E row \in SortTable :
            /\ response.sort = Str(row[1])
            /\ orderBy = [field |-> row[2], dir |-> row[3]]

\* C21: the filters, sort and search echoed in a successful list response are the
\* ones applied to the query: the echoed sort names the ordering that buildOrderBy
\* used, the echoed search is present exactly when a search condition was emitted,
\* and each echoed filter entry has its condition in the predicate
C21_EchoIsApplied ==
    Answered200 =>
        /\ EchoedSortApplied
        /\ response.search # Undefined <=> ConditionsOn("OR") # {}
        /\ \A k \in FilterKeys :
                response.filters[k] # Undefined => ConditionsOn(ConditionField(k)) # {}

\* C26: the sort tokens name-az and name-za are mapped by buildOrderBy to
\* customerName ascending and customerName descending
C26_NameAzZaMapped ==
    Validated =>
        /\ query.sort = Str(<<"n", "a", "m", "e", "-", "a", "z">>)
                => orderBy = [field |-> "customerName", dir |-> "asc"]
        /\ query.sort = Str(<<"n", "a", "m", "e", "-", "z", "a">>)
                => orderBy = [field |-> "customerName", dir |-> "desc"]

\* the caller has walked the pages 1..totalPages and holds the answer of the last
WalkedAll == Answered200 /\ params.page.num >= response.pagination.totalPages

\* how often the record with this id was returned on the pages walked
TimesReturned(id) ==
    LET all == walked \o response.data
    IN  Cardinality({i \in 1..Len(all) : all[i]["Transaction ID"] = id})

\* C29: for a fixed predicate, sort token and page size against an unchanged
\* dataset, the pages 1..totalPages requested in turn return every matching record
\* exactly once, also when matching records have equal values in the sort field
C29_EveryRecordOnce ==
    WalkedAll =>
        /\ \A doc \in Matching(whereClause) : TimesReturned(doc.id) = 1
        /\ Len(walked) + Len(response.data) = count(whereClause)

\* C22: in the client, after every completed fetch, successful or failed, the
\* statistics shown are the aggregates of exactly the records shown: the sums of
\* Quantity, of Total Amount and of Total Amount - Final Amount over salesData,
\* with nothing carried over from a previous response
C22_StatisticsOfDisplayed == client.statistics = Statistics(client.salesData)

\* C23: in the client, the current page persists across filter and search changes:
\* after a filter value or the search term changes, currentPage has the value it
\* had before
C23_PagePersists ==
    [][(FilterChange \/ SearchChange) => client'.currentPage = client.currentPage]_vars

\* C24: in the client, the selected filters are unchanged by every pagination
\* action (previous, next, page click) and every sort change, and the selected sort
\* is unchanged by every filter change, filter clear and search change
C24_FiltersAndSortKept ==
    [][/\ (PreviousPage \/ NextPage \/ PageClick \/ SortChange)
            => client'.selectedFilters = client.selectedFilters
       /\ (FilterChange \/ ClearFilters \/ SearchChange)
            => client'.sortBy = client.sortBy]_vars

\* the second request left with the gender filter F under the default sort, the
\* third after a sort change still with the filter F, and the page moved before
C24_Witness ==
    /\ \E r2, r3 \in inflight :
        /\ r2.seq = 2 /\ r3.seq = 3
        /\ r2.query.gender = Str(F)
        /\ r2.query.sort = Str(ClientStart.sortBy)
        /\ r3.query.gender = Str(F)
        /\ r3.query.sort = Str(<<"n", "a", "m", "e", "-", "a", "s", "c">>)
    /\ client.selectedFilters.gender = <<F>>

\* C25: in the client, loading is true whenever at least one sales-data request is
\* in flight, and false only when none is, also when a newer request was started
\* before an older one completed
C25_LoadingWhileInFlight == inflight # {} => client.loading

\* every request has come back and the last one issued was answered
AllSettled == Mounted /\ inflight = {} /\ latest # Undefined

\* C27: in the client, once every request in flight has completed, the records,
\* totalPages and totalRecords shown are those of the response to the request
\* issued last, whatever the order in which the responses arrived
C27_LatestRequestShown ==
    AllSettled =>
        IF latest.status = 200
        THEN /\ client.salesData = latest.data
             /\ client.totalPages = OrElse(latest.pagination.totalPages, 1)
             /\ client.totalRecords = OrElse(latest.pagination.totalRecords, 0)
        ELSE client.salesData = <<>>

PageInRange == 1 <= client.currentPage /\ client.currentPage <= client.totalPages

\* C28: in the client, after any sequence of user actions and completed responses
\* against an unchanged dataset, 1 <= currentPage <= totalPages; the previous
\* control has no effect at page 1 and the next control none at the last page
C28_PageWithinBounds ==
    /\ []PageInRange
    /\ [][/\ (PreviousPage /\ client.currentPage = 1) => UNCHANGED client
          /\ (NextPage /\ client.currentPage = client.totalPages) => UNCHANGED client]_vars

\* the seeding script has reported success and exited with status 0
SeedExit0 == seed # Undefined /\ seed.phase = "exited" /\ seed.exit = 0

\* C30: the seeding script clears all existing records first, and whenever it then
\* exits with status 0 the store holds exactly one record for each parsed CSV row,
\* also in runs where a batch insert failed, and the reported inserted total is the
\* number of records written
C30_SeedReloadsEveryRowOnce ==
    SeedExit0 =>
        /\ \A r \in 1..seed.totalParsed : Cardinality({d \in store : d.row = r}) = 1
        /\ Cardinality(store) = seed.totalParsed
        /\ seed.totalInserted = Cardinality(store)

====
